---- MODULE Spec2Model ----
(***************************************************************************)
(* Model of the two adapters of the repository.                            *)
(*                                                                         *)
(*   doc_loader.py       the ingestion adapter: class document_loader and  *)
(*                       the module-level list docs it appends to.         *)
(*   ragas_evaluator.py  the evaluation adapter: class RagasEvaluator.     *)
(*                                                                         *)
(* The external libraries (the langchain loaders, the deepeval metrics)    *)
(* are the environment: what a loader or a metric returns or raises is an  *)
(* input of the action that calls it, and every call made is logged.       *)
(*                                                                         *)
(* Python values. A str the code inspects is a tuple of one-character      *)
(* strings; a str the code never inspects is a tuple holding it whole, and *)
(* string concatenation is \o. Values of a type that None can stand in for *)
(* are tagged records (None, PyList, PyStr, PyFloat)     .               *)
(***************************************************************************)
EXTENDS Integers, Sequences, FiniteSets, TLC

VARIABLES
    \* ---- doc_loader.py
    docs,        \* the module-level list docs
    rag_files,   \* self.rag_files of the adapter constructed last
    rag_links,   \* self.rag_links of the adapter constructed last
    calls,       \* the loader.load() calls of the last construction, in order
    stdout,      \* the "Failed to load" lines the last construction printed
    outcome,     \* how the last construction ended: "none", "returned", "raised"
    submitted,   \* number of paths and links handed to adapters so far
    \* ---- ragas_evaluator.py
    self_model,      \* self.model of the evaluator
    self_embeddings, \* self.embeddings of the evaluator
    initOutcome,     \* how RagasEvaluator.__init__ ended: "none", "returned", "raised"
    tc,              \* the LLMTestCase of the last evaluate call
    ctorLog,         \* the metric constructors the last evaluate called, in order
    measureLog,      \* the metric.measure calls of the last evaluate, in order
    report,          \* what the last evaluate returned
    evalOutcome      \* how the last evaluate ended: "none", "returned", "raised"

ingestVars == <<docs, rag_files, rag_links, calls, stdout, outcome, submitted>>
evalVars == <<self_model, self_embeddings, initOutcome, tc, ctorLog, measureLog,
              report, evalOutcome>>
vars == <<ingestVars, evalVars>>

----------------------------------------------------------------------------
(* Bounds of the model.                                                    *)

MaxSubmitted == 4  \* paths and links handed to adapters in one run, the module's own included
MaxScore == 1      \* largest numeric score a metric returns

----------------------------------------------------------------------------
(* Python values.                                                          *)

None == [tag |-> "None"]
PyList(s) == [tag |-> "list", val |-> s]
PyStr(s) == [tag |-> "str", val |-> s]

\* Python truthiness of an optional list argument.
Truthy(x) == x.tag # "None" /\ x.val # <<>>

\* x or []
OrEmptyList(x) == IF Truthy(x) THEN x.val ELSE <<>>

----------------------------------------------------------------------------
(* doc_loader.py                                                           *)

\* str.lower(), on the letters the paths of the model use.
LowerChar(c) ==
    CASE c = "P" -> "p" [] c = "D" -> "d" [] c = "F" -> "f"
      [] c = "X" -> "x" [] c = "L" -> "l" [] c = "S" -> "s"
      [] c = "A" -> "a" [] OTHER -> c

lower(s) == [i \in 1..Len(s) |-> LowerChar(s[i])]

\* str.endswith(suffix)
endswith(s, suffix) ==
    /\ Len(s) >= Len(suffix)
    /\ SubSeq(s, Len(s) - Len(suffix) + 1, Len(s)) = suffix

PdfExt == <<".", "p", "d", "f">>
XlsExt == <<".", "x", "l", "s">>
XlsxExt == <<".", "x", "l", "s", "x">>

\* A faulty variant of LoaderFor: any other extension falls through to the PDF loader.
LoaderFor_else(file_path) ==
    IF endswith(lower(file_path), XlsExt) \/ endswith(lower(file_path), XlsxExt)
    THEN "UnstructuredExcelLoader"
    ELSE "PyPDFLoader"

\* The if/elif of the file loop: which loader a path is dispatched to.
LoaderFor(file_path) ==
    IF endswith(lower(file_path), PdfExt) THEN "PyPDFLoader"
    ELSE IF endswith(lower(file_path), XlsExt) \/ endswith(lower(file_path), XlsxExt)
         THEN "UnstructuredExcelLoader"
         ELSE "skip"

\* What a load() does: it raises an Exception with a message, or returns n documents.
Raises(e) == [raises |-> TRUE, n |-> 0, err |-> e]
Returns(n) == [raises |-> FALSE, n |-> n, err |-> <<>>]
LoadErrors == {<<"timeout">>}
PageCounts == {0, 2}
LoadResults == {Raises(e) : e \in LoadErrors} \cup {Returns(n) : n \in PageCounts}

\* The documents a successful load() of path returns.
Documents(path, n) == [k \in 1..n |-> [source |-> path, page |-> k]]

Call(loader, path, result) == [loader |-> loader, path |-> path, result |-> result]

\* A faulty variant of LoadFiles: a failing file is caught and the loop goes on.
RECURSIVE LoadFiles_caught(_, _, _, _)
LoadFiles_caught(files, resp, i, st) ==
    IF i > Len(files) THEN st
    ELSE LET file_path == files[i]
             loader == LoaderFor(file_path)
         IN  IF loader = "skip" THEN LoadFiles_caught(files, resp, i + 1, st)
             ELSE IF resp[i].raises
                  THEN LoadFiles_caught(files, resp, i + 1,
                          [st EXCEPT !.calls = Append(@, Call(loader, file_path, resp[i]))])
                  ELSE LoadFiles_caught(files, resp, i + 1,
                          [st EXCEPT !.docs = @ \o Documents(file_path, resp[i].n),
                                     !.calls = Append(@, Call(loader, file_path, resp[i]))])

\* The file loop of _build_vectorstore, from index i on. st holds docs, the
\* calls made, the lines printed and whether an exception is propagating.
RECURSIVE LoadFiles(_, _, _, _)
LoadFiles(files, resp, i, st) ==
    IF i > Len(files) THEN st
    ELSE LET file_path == files[i]
             loader == LoaderFor(file_path)
         IN  IF loader = "skip" THEN LoadFiles(files, resp, i + 1, st)
             ELSE IF resp[i].raises
                  THEN [st EXCEPT !.calls = Append(@, Call(loader, file_path, resp[i])),
                                  !.raised = TRUE]
                  ELSE LoadFiles(files, resp, i + 1,
                          [st EXCEPT !.docs = @ \o Documents(file_path, resp[i].n),
                                     !.calls = Append(@, Call(loader, file_path, resp[i]))])

\* print(f"Failed to load {link}: {e}")
FailedToLoad(link, e) == <<"Failed to load ">> \o link \o <<": ">> \o e

\* A faulty variant of LoadLinks: a failing link is not caught.
RECURSIVE LoadLinks_uncaught(_, _, _, _)
LoadLinks_uncaught(links, resp, i, st) ==
    IF i > Len(links) THEN st
    ELSE LET link == links[i]
         IN  IF resp[i].raises
             THEN [st EXCEPT !.calls = Append(@, Call("WebBaseLoader", link, resp[i])),
                             !.raised = TRUE]
             ELSE LoadLinks_uncaught(links, resp, i + 1,
                     [st EXCEPT !.docs = @ \o Documents(link, resp[i].n),
                                !.calls = Append(@, Call("WebBaseLoader", link, resp[i]))])

\* The link loop of _build_vectorstore, from index i on.
RECURSIVE LoadLinks(_, _, _, _)
LoadLinks(links, resp, i, st) ==
    IF i > Len(links) THEN st
    ELSE LET link == links[i]
         IN  IF resp[i].raises
             THEN LoadLinks(links, resp, i + 1,
                     [st EXCEPT !.calls = Append(@, Call("WebBaseLoader", link, resp[i])),
                                !.stdout = Append(@, FailedToLoad(link, resp[i].err))])
             ELSE LoadLinks(links, resp, i + 1,
                     [st EXCEPT !.docs = @ \o Documents(link, resp[i].n),
                                !.calls = Append(@, Call("WebBaseLoader", link, resp[i]))])

\* A faulty variant of build_vectorstore: the collection is rebuilt by every adapter.
build_vectorstore_fresh(d, files, links, fresp, lresp) ==
    LET st0 == [docs |-> <<>>, calls |-> <<>>, stdout |-> <<>>, raised |-> FALSE]
        st1 == LoadFiles(files, fresp, 1, st0)
    IN  IF st1.raised THEN st1 ELSE LoadLinks(links, lresp, 1, st1)

\* document_loader._build_vectorstore on the collection d.
build_vectorstore(d, files, links, fresp, lresp) ==
    LET st0 == [docs |-> d, calls |-> <<>>, stdout |-> <<>>, raised |-> FALSE]
        st1 == LoadFiles(files, fresp, 1, st0)
    IN  IF st1.raised THEN st1 ELSE LoadLinks(links, lresp, 1, st1)

\* document_loader.__init__(rag_files=files_arg, rag_links=links_arg); fresp[i]
\* and lresp[i] are what the loader of the i-th file and link does when called.
document_loader(files_arg, links_arg, fresp, lresp) ==
    LET files == OrEmptyList(files_arg)
        links == OrEmptyList(links_arg)
    IN  /\ rag_files' = files
        /\ rag_links' = links
        /\ IF files # <<>> \/ links # <<>>
           THEN LET st == build_vectorstore(docs, files, links, fresp, lresp)
                IN  /\ docs' = st.docs
                    /\ calls' = st.calls
                    /\ stdout' = st.stdout
                    /\ outcome' = IF st.raised THEN "raised" ELSE "returned"
           ELSE /\ docs' = docs
                /\ calls' = <<>>
                /\ stdout' = <<>>
                /\ outcome' = "returned"

\* The link the module itself loads when it is imported.
ModuleLink == <<"https://deepeval.com/guides/guides-ai-agent-evaluation">>

\* Paths and links the adapters of the model are given.
FilePaths ==
    { <<"A", ".", "P", "D", "F">>,
      <<"a", ".", "x", "l", "s">>,
      <<"a", ".", "X", "l", "s", "x">>,
      <<"a", ".", "x", "l", "s", "m">>,
      <<"p", "d", "f">> }
Links == { ModuleLink, <<"https://example.org/b">> }

\* An input item: a path or link, with what its loader does if it is called
\* (a path no loader is called for is listed once).
FileItems ==
    { [path |-> p, result |-> r] : p \in {q \in FilePaths : LoaderFor(q) # "skip"},
                                   r \in LoadResults }
    \cup { [path |-> p, result |-> Returns(0)] : p \in {q \in FilePaths : LoaderFor(q) = "skip"} }
LinkItems == { [path |-> p, result |-> r] : p \in Links, r \in LoadResults }

Paths(items) == [i \in 1..Len(items) |-> items[i].path]
Results(items) == [i \in 1..Len(items) |-> items[i].result]

\* An optional list argument: omitted (None) or the list.
Args(s) == IF s = <<>> THEN {None, PyList(s)} ELSE {PyList(s)}

\* Importing doc_loader: docs = [] has run, then line 49 constructs an adapter.
ImportModule ==
    /\ outcome = "none"
    /\ \E r \in LoadResults :
          document_loader(None, PyList(<<ModuleLink>>), <<>>, <<r>>)
    /\ submitted' = 1
    /\ UNCHANGED evalVars

\* Any later construction of an adapter, on nf paths and nl links.
Construct ==
    /\ outcome # "none"
    /\ \E nf \in 0..(MaxSubmitted - submitted) :
       \E nl \in 0..(MaxSubmitted - submitted - nf) :
       \E fitems \in [1..nf -> FileItems], litems \in [1..nl -> LinkItems] :
       \E files_arg \in Args(Paths(fitems)), links_arg \in Args(Paths(litems)) :
          /\ document_loader(files_arg, links_arg, Results(fitems), Results(litems))
          /\ submitted' = submitted + nf + nl
    /\ UNCHANGED evalVars

----------------------------------------------------------------------------
(* ragas_evaluator.py                                                      *)

\* A float, kept exact as a fraction in lowest terms.
RECURSIVE GCD(_, _)
GCD(a, b) == IF b = 0 THEN a ELSE GCD(b, a % b)
PyFloat(num, den) ==
    LET g == IF num = 0 THEN den ELSE GCD(num, den)
    IN  [tag |-> "float", num |-> num \div g, den |-> den \div g]

\* isinstance(score, (int, float))
IsNumber(score) == score.tag = "float"

RagasCls == "RAGASAnswerRelevancyMetric"
GenericCls == "AnswerRelevancyMetric"
BiasCls == "BiasMetric"
HallCls == "HallucinationMetric"

\* A faulty variant of RagasEvaluator: the model spec is checked when the evaluator is built.
RagasEvaluator_checked(model, embeddings) ==
    /\ initOutcome = "none"
    /\ self_model' = model
    /\ self_embeddings' = embeddings
    /\ initOutcome' = IF model = PyStr(<<"no-such-model">>) THEN "raised" ELSE "returned"
    /\ UNCHANGED <<tc, ctorLog, measureLog, report, evalOutcome>>

\* RagasEvaluator.__init__: both handles are stored as given.
RagasEvaluator(model, embeddings) ==
    /\ initOutcome = "none"
    /\ self_model' = model
    /\ self_embeddings' = embeddings
    /\ initOutcome' = "returned"
    /\ UNCHANGED <<tc, ctorLog, measureLog, report, evalOutcome>>

\* LLMTestCase(input=..., actual_output=..., context=context, retrieval_context=context)
LLMTestCase(input_text, response_text, context) ==
    [input |-> input_text, actual_output |-> response_text,
     context |-> context, retrieval_context |-> context]

\* One constructor call of the log.
Ctor(cls, model, res) == [cls |-> cls, model |-> model, raised |-> res.raises]

\* A faulty variant of TryAppend: the constructor's exception is not caught.
TryAppend_uncaught(st, cls, model, res) ==
    IF st.raised THEN st
    ELSE IF res.raises
         THEN [st EXCEPT !.ctorLog = Append(@, Ctor(cls, model, res)), !.raised = TRUE]
         ELSE [st EXCEPT !.ctorLog = Append(@, Ctor(cls, model, res)),
                         !.metrics = Append(@, res.metric)]

\* try: metrics.append(cls(model=...)) / except Exception: pass
TryAppend(st, cls, model, res) ==
    IF res.raises
    THEN [st EXCEPT !.ctorLog = Append(@, Ctor(cls, model, res))]
    ELSE [st EXCEPT !.ctorLog = Append(@, Ctor(cls, model, res)),
                    !.metrics = Append(@, res.metric)]

\* A faulty variant of Instantiate: the generic relevancy metric is always added as well.
Instantiate_both(model, env) ==
    LET st0 == [metrics |-> <<>>, ctorLog |-> <<>>, raised |-> FALSE]
        st1 == TryAppend(TryAppend(st0, RagasCls, model, env[RagasCls]),
                         GenericCls, model, env[GenericCls])
        st2 == TryAppend(st1, BiasCls, model, env[BiasCls])
    IN  TryAppend(st2, HallCls, model, env[HallCls])

\* Lines 66-90 of evaluate: the metrics list. env[cls] is what the constructor
\* of cls does when called.
Instantiate(model, env) ==
    LET st0 == [metrics |-> <<>>, ctorLog |-> <<>>, raised |-> FALSE]
        st1 == IF env[RagasCls].raises
               THEN TryAppend(TryAppend(st0, RagasCls, model, env[RagasCls]),
                              GenericCls, model, env[GenericCls])
               ELSE TryAppend(st0, RagasCls, model, env[RagasCls])
        st2 == TryAppend(st1, BiasCls, model, env[BiasCls])
    IN  TryAppend(st2, HallCls, model, env[HallCls])

\* getattr(metric, "__name__", metric.__class__.__name__)
NameOf(metric) == IF metric.name = None THEN <<metric.cls>> ELSE metric.name.val

\* results[name] = entry
Put(results, name, entry) ==
    [n \in DOMAIN results \cup {name} |-> IF n = name THEN entry ELSE results[n]]

\* f"metric error: {e}"
MetricError(e) == PyStr(<<"metric error: ">> \o e)

\* The body of the try/except of the scoring loop: the score and the reason.
Scored(metric) ==
    IF metric.measure.raises
    THEN [score |-> None, reason |-> MetricError(metric.measure.err)]
    ELSE [score |-> metric.measure.score, reason |-> metric.reason]

\* A faulty variant of ScoreMetrics: a null score is counted as 0.
RECURSIVE ScoreMetrics_nulls(_, _, _)
ScoreMetrics_nulls(metrics, i, st) ==
    IF i > Len(metrics) THEN st
    ELSE LET metric == metrics[i]
             entry == Scored(metric)
         IN  ScoreMetrics_nulls(metrics, i + 1,
                [st EXCEPT !.measureLog = Append(@, metric),
                           !.results = Put(@, NameOf(metric), entry),
                           !.scores = IF IsNumber(entry.score) THEN Append(@, entry.score)
                                      ELSE Append(@, PyFloat(0, 1))])

\* The scoring loop of evaluate, from index i on.
RECURSIVE ScoreMetrics(_, _, _)
ScoreMetrics(metrics, i, st) ==
    IF i > Len(metrics) THEN st
    ELSE LET metric == metrics[i]
             entry == Scored(metric)
         IN  ScoreMetrics(metrics, i + 1,
                [st EXCEPT !.measureLog = Append(@, metric),
                           !.results = Put(@, NameOf(metric), entry),
                           !.scores = IF IsNumber(entry.score) THEN Append(@, entry.score)
                                      ELSE @])

\* sum(scores), with scores a list of floats.
RECURSIVE sum(_)
sum(scores) ==
    IF scores = <<>> THEN PyFloat(0, 1)
    ELSE LET h == Head(scores)
             t == sum(Tail(scores))
         IN  PyFloat(h.num * t.den + t.num * h.den, h.den * t.den)

\* sum(scores) / len(scores) if scores else None
Aggregate(scores) ==
    IF scores # <<>> THEN PyFloat(sum(scores).num, sum(scores).den * Len(scores))
    ELSE None

NoResults == [n \in {} |-> None]

\* RagasEvaluator.evaluate, as a function of its inputs and of what the
\* metric constructors do: the report, the calls made and how it ended.
evaluate(model, env) ==
    LET inst == Instantiate(model, env)
        st == ScoreMetrics(inst.metrics, 1,
                 [results |-> NoResults, scores |-> <<>>, measureLog |-> <<>>])
    IN  IF inst.raised
        THEN [raised |-> TRUE, ctorLog |-> inst.ctorLog, measureLog |-> <<>>,
              report |-> None]
        ELSE [raised |-> FALSE, ctorLog |-> inst.ctorLog, measureLog |-> st.measureLog,
              report |-> [metrics |-> st.results, aggregate |-> Aggregate(st.scores)]]

\* The environment of the model: handles, test inputs and metric behaviours.
GoodModel == PyStr(<<"gpt-4o">>)
BadModel == PyStr(<<"no-such-model">>)
ModelArgs == {None, GoodModel, BadModel}
EmbeddingArgs == {None, PyStr(<<"text-embedding-3-small">>)}
ContextArgs == {None, PyList(<<>>), PyList(<< <<"doc text">> >>)}

MeasureRaises(e) == [raises |-> TRUE, err |-> e, score |-> None]
MeasureReturns(score) == [raises |-> FALSE, err |-> <<>>, score |-> score]
MeasureErrors == {<<>>, <<"rate limit">>}
Scores == {None} \cup {PyFloat(n, 1) : n \in 0..MaxScore}
NameAttrs == {None, PyStr(<<"Bias">>)}
ReasonAttrs == {None, PyStr(<<"because">>)}

\* The metric objects a constructor of cls can return.
Metrics(cls) ==
    { [cls |-> cls, name |-> n, measure |-> MeasureRaises(e), reason |-> None] :
         n \in NameAttrs, e \in MeasureErrors }
    \cup { [cls |-> cls, name |-> n, measure |-> MeasureReturns(s), reason |-> r] :
         n \in NameAttrs, s \in Scores, r \in ReasonAttrs }

CtorRaises == [raises |-> TRUE, metric |-> None]
CtorReturns(metric) == [raises |-> FALSE, metric |-> metric]
CtorResults(cls) == {CtorRaises} \cup {CtorReturns(m) : m \in Metrics(cls)}

\* What the constructors do in one evaluate call (the generic relevancy
\* constructor is listed once when it is not called).
Envs ==
    { [c \in {RagasCls, GenericCls, BiasCls, HallCls} |->
          CASE c = RagasCls -> rel[1] [] c = GenericCls -> rel[2]
            [] c = BiasCls -> b [] c = HallCls -> h] :
      rel \in ({CtorRaises} \X CtorResults(GenericCls))
              \cup ({CtorReturns(m) : m \in Metrics(RagasCls)} \X {CtorRaises}),
      b \in CtorResults(BiasCls), h \in CtorResults(HallCls) }

NewEvaluator ==
    /\ \E model \in ModelArgs, embeddings \in EmbeddingArgs :
          RagasEvaluator(model, embeddings)
    /\ UNCHANGED ingestVars

\* One evaluate call on the evaluator.
Evaluate ==
    /\ initOutcome = "returned"
    /\ evalOutcome = "none"
    /\ \E context \in ContextArgs, env \in Envs :
          LET r == evaluate(self_model, env)
          IN  /\ tc' = LLMTestCase(<<"What is X?">>, <<"X is ...">>,
                                   IF context = None \/ context.val = <<>>
                                   THEN <<>> ELSE context.val)
              /\ ctorLog' = r.ctorLog
              /\ measureLog' = r.measureLog
              /\ report' = r.report
              /\ evalOutcome' = IF r.raised THEN "raised" ELSE "returned"
    /\ UNCHANGED <<self_model, self_embeddings, initOutcome>>
    /\ UNCHANGED ingestVars

----------------------------------------------------------------------------
(* Specifications.                                                         *)

IngestInit ==
    /\ docs = <<>>
    /\ rag_files = <<>>
    /\ rag_links = <<>>
    /\ calls = <<>>
    /\ stdout = <<>>
    /\ outcome = "none"
    /\ submitted = 0

EvalIdle ==
    /\ self_model = None
    /\ self_embeddings = None
    /\ initOutcome = "none"
    /\ tc = None
    /\ ctorLog = <<>>
    /\ measureLog = <<>>
    /\ report = None
    /\ evalOutcome = "none"

Init == IngestInit /\ EvalIdle

\* The ingestion adapter: the module is imported, then adapters are constructed.
Next == ImportModule \/ Construct

Spec == Init /\ [][Next]_vars

\* The evaluation adapter: an evaluator is constructed, then evaluate is called.
EvalNext == NewEvaluator \/ Evaluate

EvalSpec == Init /\ [][EvalNext]_vars

----------------------------------------------------------------------------
(* Properties of the ingestion adapter (specification Spec).               *)

WebCalls(cs) == SelectSeq(cs, LAMBDA c : c.loader = "WebBaseLoader")
FileCalls(cs) == SelectSeq(cs, LAMBDA c : c.loader # "WebBaseLoader")
FailedCalls(cs) == SelectSeq(cs, LAMBDA c : c.result.raises)
NoFileFailure(cs) == FailedCalls(FileCalls(cs)) = <<>>

\* The documents the calls of cs returned, in call order.
RECURSIVE Returned(_)
Returned(cs) ==
    IF cs = <<>> THEN <<>>
    ELSE (IF Head(cs).result.raises THEN <<>>
          ELSE Documents(Head(cs).path, Head(cs).result.n)) \o Returned(Tail(cs))

IsPrefix(s, t) == Len(s) <= Len(t) /\ SubSeq(t, 1, Len(s)) = s

\* The paths of the model that end in none of .pdf, .xls, .xlsx in any case.
UnsupportedPaths ==
    { <<"a", ".", "x", "l", "s", "m">>, <<"p", "d", "f">> }

\* C1: in a construction where no file loader raises, whichever web loaders
\* raise on load, the construction returns, every link of the list is loaded
\* once in list order, docs gains (after the documents of the files) exactly
\* the documents of the links that loaded, and one "Failed to load" line that
\* names the link is printed per failing link, in order.
C1_BadLinksNeverAbort ==
    [][ NoFileFailure(calls') =>
          /\ outcome' = "returned"
          /\ Paths(WebCalls(calls')) = rag_links'
          /\ docs' = docs \o Returned(FileCalls(calls')) \o Returned(WebCalls(calls'))
          /\ Len(stdout') = Len(FailedCalls(WebCalls(calls')))
          /\ \A i \in 1..Len(stdout') :
                /\ stdout'[i][1] = "Failed to load "
                /\ <<stdout'[i][2]>> = FailedCalls(WebCalls(calls'))[i].path
      ]_vars

\* A construction with a file, a link that failed and a later link that loaded.
C1_Witness ==
    /\ outcome = "returned"
    /\ Len(rag_files) = 1 /\ Len(rag_links) = 2
    /\ Len(calls) = 3
    /\ ~calls[1].result.raises /\ calls[2].result.raises /\ ~calls[3].result.raises
    /\ calls[3].result.n > 0
    /\ Len(stdout) = 1
    /\ docs[Len(docs)].source = rag_links[2]

\* C2: a construction raises exactly when a file loader raised; that call is
\* then the last call made, so no later path and no link is loaded; a web
\* loader that raises does not make the construction raise.
C2_FileFailuresPropagate ==
    /\ \A i \in 1..Len(calls) :
          (calls[i].loader # "WebBaseLoader" /\ calls[i].result.raises)
          => /\ outcome = "raised"
             /\ i = Len(calls)
             /\ WebCalls(calls) = <<>>
             /\ stdout = <<>>
    /\ outcome = "raised" => ~NoFileFailure(calls)

\* The first of two loadable paths failed, and there were links to load.
C2_Witness ==
    /\ outcome = "raised"
    /\ Len(rag_files) = 2 /\ rag_links # <<>>
    /\ rag_files[2] \notin UnsupportedPaths
    /\ Len(calls) = 1 /\ calls[1].path = rag_files[1]

\* C7: docs only grows at its end: over every construction, one that raises
\* included, the former contents are a prefix of the new contents.
C7_DocsAppendOnly == [][ IsPrefix(docs, docs') ]_vars

\* A construction that raised after it had appended to what the import left.
C7_Witness ==
    /\ outcome = "raised"
    /\ Len(calls) = 2 /\ ~calls[1].result.raises /\ calls[1].result.n > 0
    /\ Len(docs) > calls[1].result.n
    /\ docs[1].source = ModuleLink
    /\ docs[Len(docs)].source = calls[1].path

\* C8: a construction given only paths of unsupported extension and no link
\* leaves docs as it was, calls no loader and returns.
C8_UnsupportedOnlyIsNoOp ==
    [][ (outcome' # "none" /\ rag_links' = <<>>
         /\ \A i \in 1..Len(rag_files') : rag_files'[i] \in UnsupportedPaths)
        => (docs' = docs /\ calls' = <<>> /\ stdout' = <<>> /\ outcome' = "returned")
      ]_vars

\* Two unsupported paths were given to an adapter while docs held documents.
C8_Witness ==
    /\ outcome = "returned"
    /\ Len(rag_files) = 2 /\ rag_links = <<>>
    /\ rag_files[1] # rag_files[2]
    /\ \A i \in 1..Len(rag_files) : rag_files[i] \in UnsupportedPaths
    /\ docs # <<>> /\ calls = <<>>

----------------------------------------------------------------------------
(* Properties of the evaluation adapter (specification EvalSpec).          *)

Classes(log) == [i \in 1..Len(log) |-> log[i].cls]
Succeeded(log) == SelectSeq(log, LAMBDA c : ~c.raised)
Numeric(log) == SelectSeq(log, LAMBDA m : ~m.measure.raises /\ m.measure.score.tag = "float")
Names(log) == { NameOf(log[i]) : i \in 1..Len(log) }

\* The total of the scores the measure calls of log returned (whole numbers).
RECURSIVE Total(_)
Total(log) == IF log = <<>> THEN 0 ELSE Head(log).measure.score.num + Total(Tail(log))

\* The total of the numeric scores of the entries of mapping under the names of S.
RECURSIVE TotalOf(_, _)
TotalOf(mapping, S) ==
    IF S = {} THEN 0
    ELSE LET n == CHOOSE x \in S : TRUE
         IN  mapping[n].score.num + TotalOf(mapping, S \ {n})

\* aggregate is the mean of count numbers of the given total (None for no number).
IsMean(aggregate, total, count) ==
    IF count = 0 THEN aggregate = None
    ELSE /\ aggregate.tag = "float"
         /\ aggregate.num * count = total * aggregate.den

\* C3: the aggregate of a report is the mean of the scores of exactly the
\* measure calls that returned a number; it is None when there is none,
\* also when no metric was instantiated.
C3_AggregateIsMeanOfNumeric ==
    evalOutcome = "returned" =>
        IsMean(report.aggregate, Total(Numeric(measureLog)), Len(Numeric(measureLog)))

\* Three metrics scored: one raised, the others returned 0 and 1.
C3_Witness ==
    /\ evalOutcome = "returned"
    /\ Len(measureLog) = 3 /\ Len(Numeric(measureLog)) = 2
    /\ measureLog[2].measure.raises
    /\ report.aggregate = PyFloat(1, 2)

\* C4: the entry of a metric whose measure raised has a null score and a
\* non-empty reason that holds the error text, and the entry of every other
\* metric is what it is when that metric returns a score instead.
C4_ScoringFailureIsIsolated ==
    evalOutcome = "returned" =>
        \A i \in 1..Len(measureLog) :
            measureLog[i].measure.raises =>
               LET m == measureLog[i]
                   entry == report.metrics[NameOf(m)]
               IN  /\ entry.score = None
                   /\ entry.reason.tag = "str"
                   /\ entry.reason.val # <<>>
                   /\ SubSeq(entry.reason.val, 2, Len(entry.reason.val)) = m.measure.err
                   /\ \A s \in Scores, r \in ReasonAttrs :
                         LET alt == [measureLog EXCEPT ![i] =
                                        [m EXCEPT !.measure = MeasureReturns(s), !.reason = r]]
                             other == ScoreMetrics(alt, 1,
                                         [results |-> NoResults, scores |-> <<>>,
                                          measureLog |-> <<>>]).results
                         IN  \A j \in 1..Len(measureLog) :
                                j # i => other[NameOf(measureLog[j])]
                                         = report.metrics[NameOf(measureLog[j])]

\* C5: whichever constructors and measure calls raise, evaluate returns a
\* report; the bias and hallucination constructors are called whatever
\* failed before them, every metric that was built is measured, one that
\* was not built is not, and every key of the mapping is the name of a
\* metric that was built.
C5_EvaluateNeverAborts ==
    evalOutcome # "none" =>
        /\ evalOutcome = "returned"
        /\ DOMAIN report = {"metrics", "aggregate"}
        /\ \E i \in 1..Len(ctorLog) : ctorLog[i].cls = BiasCls
        /\ ctorLog[Len(ctorLog)].cls = HallCls
        /\ Classes(measureLog) = Classes(Succeeded(ctorLog))
        /\ DOMAIN report.metrics = Names(measureLog)

\* Both relevancy constructors and the bias constructor raised, and the
\* measure call of the hallucination metric raised.
C5_Witness ==
    /\ evalOutcome = "returned"
    /\ Len(ctorLog) = 4
    /\ ctorLog[1].raised /\ ctorLog[2].raised /\ ctorLog[3].raised
    /\ Len(measureLog) = 1 /\ measureLog[1].measure.raises
    /\ report.aggregate = None

\* C6 as stated: an evaluator built from a bad model spec hands no report
\* to the caller when that spec makes the metric constructors raise.
C6_BadModelSpecPropagates ==
    ~ ( /\ self_model = BadModel
        /\ evalOutcome = "returned"
        /\ \E i \in 1..Len(ctorLog) : ctorLog[i].raised /\ ctorLog[i].model = BadModel )

\* C6 as amended: building the evaluator never raises, whatever the model
\* spec; the spec reaches every metric constructor as it was given, and the
\* constructors that raise are caught inside evaluate, which returns a
\* report without their metrics (an empty mapping and a null aggregate when
\* all of them raise).
C6_BadModelSpecAbsorbed ==
    /\ initOutcome \in {"none", "returned"}
    /\ evalOutcome # "none" =>
          /\ evalOutcome = "returned"
          /\ \A i \in 1..Len(ctorLog) : ctorLog[i].model = self_model
          /\ Len(measureLog) = Len(Succeeded(ctorLog))
          /\ (Succeeded(ctorLog) = <<>>) =>
                (report.metrics = NoResults /\ report.aggregate = None)

\* The bad model spec made every constructor raise and a report came back.
C6_Witness ==
    /\ self_model = BadModel
    /\ evalOutcome = "returned"
    /\ Len(ctorLog) = 4 /\ Succeeded(ctorLog) = <<>>
    /\ report.aggregate = None

\* C9: the constructors are called in the order relevancy, bias,
\* hallucination, the generic relevancy constructor only after the RAGAS one
\* raised; the metrics are measured in the order they were built, at most
\* one of them a relevancy metric and at most three in all.
C9_FixedOrder ==
    evalOutcome = "returned" =>
        /\ Classes(ctorLog) = IF ctorLog[1].raised
                              THEN <<RagasCls, GenericCls, BiasCls, HallCls>>
                              ELSE <<RagasCls, BiasCls, HallCls>>
        /\ Classes(measureLog) = Classes(Succeeded(ctorLog))
        /\ Len(SelectSeq(measureLog, LAMBDA m : m.cls \in {RagasCls, GenericCls})) <= 1
        /\ Len(measureLog) <= 3

\* The fallback relevancy metric, the bias and the hallucination metric scored.
C9_Witness ==
    /\ evalOutcome = "returned"
    /\ Classes(ctorLog) = <<RagasCls, GenericCls, BiasCls, HallCls>>
    /\ Classes(measureLog) = <<GenericCls, BiasCls, HallCls>>

\* C10: the mapping of a report has one entry for each metric that was
\* built, and the aggregate is the mean of the numeric scores found in the
\* mapping (None when it holds none), whatever names the metrics report.
C10_ReportSelfConsistent ==
    evalOutcome = "returned" =>
        LET numeric == { n \in DOMAIN report.metrics : IsNumber(report.metrics[n].score) }
        IN  /\ Cardinality(DOMAIN report.metrics) = Len(measureLog)
            /\ IsMean(report.aggregate, TotalOf(report.metrics, numeric), Cardinality(numeric))

====
